---- MODULE Spec2Model ----
(* Model of the elevenlabs-go client: the request executor Client.doRequest,  *)
(* the typed endpoint methods built on it, the error types and the history    *)
(* pagination continuation (client.go, models.go, errors).                    *)
EXTENDS Integers, Sequences, FiniteSets, TLC

(* ------------------------------------------------------------------------ *)
(* Bounds                                                                    *)
(* ------------------------------------------------------------------------ *)
MaxTimeout == 1
MaxClock == 2
MaxChain == 2
MaxRedirects == 2
MaxFiles == 3
MaxQueries == 3

(* ------------------------------------------------------------------------ *)
(* Program constants                                                         *)
(* ------------------------------------------------------------------------ *)
elevenlabsBaseURL == "https://api.elevenlabs.io/v1"
(* 30 * time.Second, in seconds                                              *)
defaultTimeout == 30
contentTypeJSON == "application/json"
contentTypeMultipart == "multipart/form-data; boundary=b"
StatusOK == 200
StatusBadRequest == 400
StatusUnauthorized == 401
StatusUnprocessableEntity == 422

StatusText(code) ==
    CASE code = 200 -> "OK"
      [] code = 201 -> "Created"
      [] code = 204 -> "No Content"
      [] code = 302 -> "Found"
      [] code = 400 -> "Bad Request"
      [] code = 401 -> "Unauthorized"
      [] code = 404 -> "Not Found"
      [] code = 422 -> "Unprocessable Entity"
      [] code = 500 -> "Internal Server Error"
      [] OTHER -> ""

(* ------------------------------------------------------------------------ *)
(* JSON documents (what encoding/json sees in a body)                        *)
(* ------------------------------------------------------------------------ *)
JBad == [t |-> "bad", s |-> "", a |-> <<>>, o |-> <<>>]
JNull == [t |-> "null", s |-> "null", a |-> <<>>, o |-> <<>>]
JStr(x) == [t |-> "str", s |-> x, a |-> <<>>, o |-> <<>>]
JNum(x) == [t |-> "num", s |-> x, a |-> <<>>, o |-> <<>>]
JBool(x) == [t |-> "bool", s |-> x, a |-> <<>>, o |-> <<>>]
JArr(x) == [t |-> "arr", s |-> "", a |-> x, o |-> <<>>]
JObj(x) == [t |-> "obj", s |-> "", a |-> <<>>, o |-> x]

HasKey(j, k) == j.t = "obj" /\ k \in DOMAIN j.o
Get(j, k) == IF HasKey(j, k) THEN j.o[k] ELSE JNull

(* The bodies a server can answer with: the bytes on the wire and the JSON   *)
(* document those bytes spell (JBad: not JSON).                               *)
DocAPIError ==
    JObj([detail |-> JObj([status |-> JStr("needs_authorization"),
                           message |-> JStr("no key")])])
DocValidation ==
    JObj([detail |-> JArr(<< JObj([loc |-> JArr(<<JStr("body"), JNum("0")>>),
                                   msg |-> JStr("field required"),
                                   type |-> JStr("value_error")]),
                             JObj([loc |-> JArr(<<JStr("query")>>),
                                   msg |-> JStr("second"),
                                   type |-> JStr("value_error")]) >>)])
DocValidationEmpty == JObj([detail |-> JArr(<<>>)])
DocValidationBareLoc ==
    JObj([detail |-> JArr(<< JObj([loc |-> JStr("body"),
                                   msg |-> JStr("bare"),
                                   type |-> JStr("value_error")]) >>)])
DocDetailString == JObj([detail |-> JStr("oops")])
DocEmptyObject == JObj(<<>>)
DocEmptyArray == JArr(<<>>)
DocHasMoreX ==
    JObj([history |-> JArr(<<>>), last_history_item_id |-> JStr("X"),
          has_more |-> JBool("true")])
DocHasMoreNoId ==
    JObj([history |-> JArr(<<>>), last_history_item_id |-> JStr(""),
          has_more |-> JBool("true")])
DocNoMore ==
    JObj([history |-> JArr(<<>>), last_history_item_id |-> JStr("Z"),
          has_more |-> JBool("false")])
DocHasMoreWrongType ==
    JObj([last_history_item_id |-> JStr("X"), has_more |-> JStr("yes")])

Catalogue ==
    << [bytes |-> <<>>,     json |-> JBad],
       [bytes |-> <<1>>,    json |-> DocEmptyObject],
       [bytes |-> <<2>>,    json |-> DocEmptyArray],
       [bytes |-> <<1, 1>>, json |-> DocAPIError],
       [bytes |-> <<1, 2>>, json |-> DocValidation],
       [bytes |-> <<1, 3>>, json |-> DocDetailString],
       [bytes |-> <<2, 1>>, json |-> DocHasMoreX],
       [bytes |-> <<2, 2>>, json |-> DocHasMoreNoId],
       [bytes |-> <<2, 3>>, json |-> DocNoMore],
       [bytes |-> <<3, 1>>, json |-> DocHasMoreWrongType],
       [bytes |-> <<3, 2>>, json |-> DocValidationEmpty],
       [bytes |-> <<3, 3>>, json |-> DocValidationBareLoc],
       [bytes |-> <<3>>,
        json |-> JObj([tier |-> JStr("pro"), has_open_invoices |-> JStr("yes"),
                       first_name |-> JStr("Al"), subscription |-> JStr("none")])] >>

Bodies == { Catalogue[i].bytes : i \in DOMAIN Catalogue }

(* The JSON scanner: the document a byte string spells, JBad when it is not  *)
(* valid JSON (a truncated or empty body included).                          *)
Parse(b) ==
    IF \E i \in DOMAIN Catalogue : Catalogue[i].bytes = b
    THEN Catalogue[CHOOSE i \in DOMAIN Catalogue : Catalogue[i].bytes = b].json
    ELSE JBad

(* ------------------------------------------------------------------------ *)
(* json.Unmarshal into the repository's types.  A syntax error leaves the    *)
(* target untouched; a type mismatch is remembered (err = "type") while the  *)
(* rest of the document is still decoded; null and absent keys leave the     *)
(* zero value.                                                               *)
(* ------------------------------------------------------------------------ *)
Zero(type) ==
    CASE type = "string" -> ""
      [] type = "bool" -> "false"
      [] type = "number" -> "0"
      [] type = "array" -> "nil"
      [] type = "object" -> "zero"

Fits(type, j) ==
    \/ j.t = "null"
    \/ type = "string" /\ j.t = "str"
    \/ type = "bool" /\ j.t = "bool"
    \/ type = "number" /\ j.t = "num"
    \/ type = "array" /\ j.t = "arr"
    \/ type = "object" /\ j.t = "obj"

Stored(type, j) ==
    CASE j.t = "null" -> Zero(type)
      [] j.t \in {"str", "bool", "num"} -> j.s
      [] j.t = "arr" -> "array"
      [] j.t = "obj" -> "object"

ZeroOf(fields) == [f \in DOMAIN fields |-> Zero(fields[f])]

(* Decoding a JSON value into a struct whose fields have the given types.   *)
DecodeStruct(j, fields) ==
    IF j.t = "null" THEN [err |-> "", v |-> ZeroOf(fields)]
    ELSE IF j.t # "obj" THEN [err |-> "type", v |-> ZeroOf(fields)]
    ELSE [err |-> IF \E f \in DOMAIN fields : ~Fits(fields[f], Get(j, f))
                  THEN "type" ELSE "",
          v |-> [f \in DOMAIN fields |->
                    IF Fits(fields[f], Get(j, f))
                    THEN Stored(fields[f], Get(j, f))
                    ELSE Zero(fields[f])]]

(* The typed records of models.go, by the fields the model keeps of each.   *)
Shapes ==
    [ Models |-> [models |-> "array"],
      GetVoicesResponse |-> [voices |-> "array"],
      VoiceSettings |-> [stability |-> "number", use_speaker_boost |-> "bool"],
      Voice |-> [voice_id |-> "string", name |-> "string"],
      AddVoiceResponse |-> [voice_id |-> "string"],
      GetHistoryResponse |-> [history |-> "array",
                              last_history_item_id |-> "string",
                              has_more |-> "bool"],
      HistoryItem |-> [history_item_id |-> "string", text |-> "string"],
      Subscription |-> [tier |-> "string", has_open_invoices |-> "bool"],
      User |-> [subscription |-> "object", first_name |-> "string"] ]

(* json.Unmarshal(b.Bytes(), &target) of the typed endpoint methods.        *)
(* GetModels decodes into a slice, every other method into a struct.        *)
Unmarshal(b, target) ==
    LET j == Parse(b) IN
    IF j.t = "bad" THEN [err |-> "syntax", v |-> ZeroOf(Shapes[target])]
    ELSE IF target = "Models"
    THEN IF j.t = "null" THEN [err |-> "", v |-> [models |-> "nil"]]
         ELSE IF j.t # "arr" THEN [err |-> "type", v |-> [models |-> "nil"]]
         ELSE [err |-> IF \E i \in DOMAIN j.a : j.a[i].t \notin {"obj", "null"}
                       THEN "type" ELSE "",
               v |-> [models |-> "array"]]
    ELSE DecodeStruct(j, Shapes[target])

(* APIError{Detail APIErrorDetail}                                           *)
APIErrorDetailFields ==
    [status |-> "string", message |-> "string", additional_info |-> "string"]

UnmarshalAPIError(b) ==
    LET j == Parse(b) IN
    IF j.t = "bad" THEN [err |-> "syntax", v |-> ZeroOf(APIErrorDetailFields)]
    ELSE IF j.t = "null" THEN [err |-> "", v |-> ZeroOf(APIErrorDetailFields)]
    ELSE IF j.t # "obj" THEN [err |-> "type", v |-> ZeroOf(APIErrorDetailFields)]
    ELSE DecodeStruct(Get(j, "detail"), APIErrorDetailFields)

(* ValidationErrorDetailLocItem.UnmarshalJSON: the raw text of the element  *)
(* with surrounding double quotes trimmed; it never fails.                   *)
LocItemUnmarshalJSON(j) == j.s

(* Variant: the segments decoded as plain strings, without the element      *)
(* decoder; an integer index then does not fit.                              *)
DecodeLoc_StringsOnly(j) ==
    IF j.t = "arr"
    THEN [err |-> IF \E i \in DOMAIN j.a : j.a[i].t \notin {"str", "null"}
                  THEN "type" ELSE "",
          v |-> [i \in DOMAIN j.a |-> IF j.a[i].t = "str" THEN j.a[i].s ELSE ""]]
    ELSE IF j.t = "null" THEN [err |-> "", v |-> <<>>]
    ELSE [err |-> "type", v |-> <<>>]

(* Variant: a bare string taken as a location of one segment.                *)
DecodeLoc_AcceptsString(j) ==
    IF j.t = "arr"
    THEN [err |-> "", v |-> [i \in DOMAIN j.a |-> LocItemUnmarshalJSON(j.a[i])]]
    ELSE IF j.t = "null" THEN [err |-> "", v |-> <<>>]
    ELSE IF j.t = "str" THEN [err |-> "", v |-> <<LocItemUnmarshalJSON(j)>>]
    ELSE [err |-> "type", v |-> <<>>]

(* Loc []ValidationErrorDetailLocItem: only a JSON array (or null) fits a    *)
(* slice; the element decoder is not consulted for anything else.            *)
DecodeLoc(j) ==
    IF j.t = "arr"
    THEN [err |-> "", v |-> [i \in DOMAIN j.a |-> LocItemUnmarshalJSON(j.a[i])]]
    ELSE IF j.t = "null" THEN [err |-> "", v |-> <<>>]
    ELSE [err |-> "type", v |-> <<>>]

DecodeDetailItem(j) ==
    LET flat == DecodeStruct(j, [msg |-> "string", type |-> "string"])
        loc == IF j.t = "obj" THEN DecodeLoc(Get(j, "loc"))
               ELSE [err |-> "", v |-> <<>>]
    IN [err |-> IF flat.err # "" \/ loc.err # "" THEN "type" ELSE "",
        v |-> [loc |-> loc.v, msg |-> flat.v.msg, type |-> flat.v.type]]

(* ValidationError{Detail *[]ValidationErrorDetailItem}: isNil is the nil    *)
(* pointer left by an absent or null "detail".                               *)
UnmarshalValidationError(b) ==
    LET j == Parse(b)
        nil == [isNil |-> TRUE, items |-> <<>>]
        d == Get(j, "detail")
    IN
    IF j.t = "bad" THEN [err |-> "syntax", v |-> nil]
    ELSE IF j.t = "null" THEN [err |-> "", v |-> nil]
    ELSE IF j.t # "obj" THEN [err |-> "type", v |-> nil]
    ELSE IF d.t = "null" THEN [err |-> "", v |-> nil]
    ELSE IF d.t # "arr" THEN [err |-> "type", v |-> nil]
    ELSE [err |-> IF \E i \in DOMAIN d.a : DecodeDetailItem(d.a[i]).err # ""
                  THEN "type" ELSE "",
          v |-> [isNil |-> FALSE,
                 items |-> [i \in DOMAIN d.a |-> DecodeDetailItem(d.a[i]).v]]]

(* ------------------------------------------------------------------------ *)
(* Errors returned to the caller                                             *)
(* ------------------------------------------------------------------------ *)
NoDetail == ZeroOf(APIErrorDetailFields)
NoItems == [isNil |-> TRUE, items |-> <<>>]
MkErr(kind, api, val, code, text) ==
    [kind |-> kind, api |-> api, val |-> val, code |-> code, text |-> text]

ErrNil == MkErr("nil", NoDetail, NoItems, 0, "")
ErrAPI(d) == MkErr("APIError", d, NoItems, 0, "")
ErrValidation(v) == MkErr("ValidationError", NoDetail, v, 0, "")
(* fmt.Errorf("unexpected HTTP status \"%d %s\" returned from server", ...)  *)
ErrStatus(code) == MkErr("unexpected HTTP status", NoDetail, NoItems, code, StatusText(code))
(* *json.SyntaxError / *json.UnmarshalTypeError                              *)
ErrJSON(e) == MkErr("json", NoDetail, NoItems, 0, e)
(* *url.Error wrapping context.DeadlineExceeded / context.Canceled          *)
ErrCtx(e) == MkErr("transport", NoDetail, NoItems, 0, e)

(* APIError.Error()                                                          *)
APIErrorError(e) == <<"api error - ", e.api.message>>

(* ValidationError.Error(): fmt.Sprintf of "validation error: %s" with the   *)
(* Msg of entry 0 of the list e.Detail points to.  Dereferencing a nil       *)
(* Detail and indexing an empty list are run-time panics.                    *)
ValidationErrorError(e) ==
    IF e.val.isNil
    THEN [panic |-> "nil pointer dereference", text |-> <<>>]
    ELSE IF Len(e.val.items) = 0
    THEN [panic |-> "index out of range", text |-> <<>>]
    ELSE [panic |-> "", text |-> <<"validation error: ", e.val.items[1].msg>>]

(* ------------------------------------------------------------------------ *)
(* Query modifiers (QueryFunc) and url.Values                                *)
(* ------------------------------------------------------------------------ *)
(* fmt.Sprint of the integers the model passes                               *)
Sprint(n) ==
    CASE n = 2 -> "2"
      [] n = 5 -> "5"
      [] n = 9 -> "9"
      [] OTHER -> "0"

LatencyOptimizations(value) ==
    [key |-> "optimize_streaming_latency", value |-> Sprint(value)]
WithSettings == [key |-> "with_settings", value |-> "true"]
PageSize(n) == [key |-> "page_size", value |-> Sprint(n)]
StartAfter(id) == [key |-> "start_after_history_item_id", value |-> id]

(* Variant: url.Values.Set, the value replaces the key's list.               *)
Add_Set(q, k, v) ==
    IF k \in DOMAIN q THEN [q EXCEPT ![k] = <<v>>] ELSE q @@ (k :> <<v>>)

(* url.Values.Add: append the value to the key's list                        *)
Add(q, k, v) ==
    IF k \in DOMAIN q THEN [q EXCEPT ![k] = Append(@, v)] ELSE q @@ (k :> <<v>>)

(* for _, qf := range queries { qf(&q) }                                     *)
RECURSIVE ApplyQueries(_, _)
ApplyQueries(q, queries) ==
    IF queries = <<>> THEN q
    ELSE ApplyQueries(Add(q, Head(queries).key, Head(queries).value), Tail(queries))

(* url.Values.Encode: keys in sorted order, each key's values in the order   *)
(* they were added; the result is the list of key=value pairs.               *)
SortedKeys ==
    << "optimize_streaming_latency", "page_size",
       "start_after_history_item_id", "with_settings" >>

RECURSIVE EncodeFrom(_, _)
EncodeFrom(q, i) ==
    IF i > Len(SortedKeys) THEN <<>>
    ELSE (IF SortedKeys[i] \in DOMAIN q
          THEN [n \in DOMAIN q[SortedKeys[i]] |-> <<SortedKeys[i], q[SortedKeys[i]][n]>>]
          ELSE <<>>) \o EncodeFrom(q, i + 1)

(* Variant: the keys emitted from the last of the sorted order to the first.  *)
RECURSIVE EncodeDownFrom(_, _)
EncodeDownFrom(q, i) ==
    IF i < 1 THEN <<>>
    ELSE (IF SortedKeys[i] \in DOMAIN q
          THEN [n \in DOMAIN q[SortedKeys[i]] |-> <<SortedKeys[i], q[SortedKeys[i]][n]>>]
          ELSE <<>>) \o EncodeDownFrom(q, i - 1)

Encode_Descending(q) == EncodeDownFrom(q, Len(SortedKeys))

Encode(q) == EncodeFrom(q, 1)

(* ------------------------------------------------------------------------ *)
(* The endpoint methods of Client                                            *)
(*   body: what the method passes as bodyBuf; out: what it returns besides   *)
(*   the error; ids: number of identifier arguments; queries: whether it     *)
(*   takes query modifiers; keep: whether a failed decode returns the        *)
(*   partially decoded record instead of the zero value.                     *)
(* ------------------------------------------------------------------------ *)
Ep(method, body, out, target, ids, queries) ==
    [method |-> method, body |-> body, out |-> out, target |-> target,
     ids |-> ids, queries |-> queries]

Endpoints ==
    [ TextToSpeech |-> Ep("POST", "json", "bytes", "", 1, TRUE),
      TextToSpeechStream |-> Ep("POST", "json", "stream", "", 1, TRUE),
      GetModels |-> Ep("GET", "empty", "typed", "Models", 0, FALSE),
      GetVoices |-> Ep("GET", "empty", "typed", "GetVoicesResponse", 0, FALSE),
      GetDefaultVoiceSettings |-> Ep("GET", "empty", "typed", "VoiceSettings", 0, FALSE),
      GetVoiceSettings |-> Ep("GET", "empty", "typed", "VoiceSettings", 1, FALSE),
      GetVoice |-> Ep("GET", "empty", "typed", "Voice", 1, TRUE),
      DeleteVoice |-> Ep("DELETE", "empty", "none", "", 1, FALSE),
      EditVoiceSettings |-> Ep("POST", "json", "none", "", 1, FALSE),
      AddVoice |-> Ep("POST", "multipart", "typed", "AddVoiceResponse", 0, FALSE),
      EditVoice |-> Ep("POST", "multipart", "none", "", 1, FALSE),
      DeleteSample |-> Ep("DELETE", "empty", "none", "", 2, FALSE),
      GetSampleAudio |-> Ep("GET", "empty", "bytes", "", 2, FALSE),
      GetHistory |-> Ep("GET", "empty", "history", "GetHistoryResponse", 0, TRUE),
      GetHistoryItem |-> Ep("GET", "empty", "typed", "HistoryItem", 1, FALSE),
      DeleteHistoryItem |-> Ep("DELETE", "empty", "none", "", 1, FALSE),
      GetHistoryItemAudio |-> Ep("GET", "empty", "bytes", "", 1, FALSE),
      DownloadHistoryAudio |-> Ep("POST", "json", "bytes", "", 0, FALSE),
      GetSubscription |-> Ep("GET", "empty", "typed", "Subscription", 0, FALSE),
      GetUser |-> Ep("GET", "empty", "typed", "User", 0, FALSE) ]

EndpointNames == DOMAIN Endpoints
(* GetSubscription and GetUser return the record they decoded into even when *)
(* the decode failed; every other typed method returns the zero value.       *)
KeepsPartial(ep) == ep \in {"GetSubscription", "GetUser"}

(* fmt.Sprintf("%s/...", c.baseURL, ids...): the path after the base address *)
(* as its pieces, "/" and names; an empty identifier is an empty piece.      *)
PathOf(ep, id1, id2) ==
    CASE ep = "TextToSpeech" -> <<"/", "text-to-speech", "/", id1>>
      [] ep = "TextToSpeechStream" -> <<"/", "text-to-speech", "/", id1, "/", "stream">>
      [] ep = "GetModels" -> <<"/", "models">>
      [] ep = "GetVoices" -> <<"/", "voices">>
      [] ep = "GetDefaultVoiceSettings" -> <<"/", "voices", "/", "settings", "/", "default">>
      [] ep = "GetVoiceSettings" -> <<"/", "voices", "/", id1, "/", "settings">>
      [] ep = "GetVoice" -> <<"/", "voices", "/", id1>>
      [] ep = "DeleteVoice" -> <<"/", "voices", "/", id1>>
      [] ep = "EditVoiceSettings" -> <<"/", "voices", "/", id1, "/", "settings", "/", "edit">>
      [] ep = "AddVoice" -> <<"/", "voices", "/", "add">>
      [] ep = "EditVoice" -> <<"/", "voices", "/", id1, "/", "edit">>
      [] ep = "DeleteSample" -> <<"/", "voices", "/", id1, "/", "samples", "/", id2>>
      [] ep = "GetSampleAudio" -> <<"/", "voices", "/", id1, "/", "samples", "/", id2, "/", "audio">>
      [] ep = "GetHistory" -> <<"/", "history">>
      [] ep = "GetHistoryItem" -> <<"/", "history", "/", id1>>
      [] ep = "DeleteHistoryItem" -> <<"/", "history", "/", id1>>
      [] ep = "GetHistoryItemAudio" -> <<"/", "history", "/", id1, "/", "audio">>
      [] ep = "DownloadHistoryAudio" -> <<"/", "history", "/", "download">>
      [] ep = "GetSubscription" -> <<"/", "user", "/", "subscription">>
      [] ep = "GetUser" -> <<"/", "user">>

(* AddEditVoiceRequest.buildRequestBody: fails when a file cannot be opened  *)
(* ("missing") or cannot be read ("dir": a directory opens but does not      *)
(* read), then there is no body and no content type.                         *)
(* body: "nil" or the buffer the multipart writer filled.                     *)
buildRequestBody_SkipsUnopened(files) ==
    [err |-> FALSE, body |-> "buffer", contentType |-> contentTypeMultipart]

buildRequestBody(files) ==
    IF \E i \in DOMAIN files : files[i] \in {"missing", "dir"}
    THEN [err |-> TRUE, body |-> "nil", contentType |-> ""]
    ELSE [err |-> FALSE, body |-> "buffer", contentType |-> contentTypeMultipart]

(* Variant: no content type for the methods that send an empty body.         *)
ContentTypeOf_BodyOnly(ep, files) ==
    IF Endpoints[ep].body = "multipart" THEN buildRequestBody(files).contentType
    ELSE IF Endpoints[ep].body = "empty" THEN ""
    ELSE contentTypeJSON

(* The content type an endpoint method hands to doRequest                    *)
ContentTypeOf(ep, files) ==
    IF Endpoints[ep].body = "multipart" THEN buildRequestBody(files).contentType
    ELSE contentTypeJSON

(* ------------------------------------------------------------------------ *)
(* Inputs of the model                                                       *)
(* ------------------------------------------------------------------------ *)
APIKeys == {"", "k1"}
Timeouts == 0..MaxTimeout
IDs == {"v1"}
Statuses == {200, 201, 400, 401, 422, 500}
QueryFuncs ==
    { LatencyOptimizations(2), WithSettings, PageSize(5), PageSize(9),
      StartAfter("W") }
QuerySeqs ==
    { <<>>, <<PageSize(5), StartAfter("W")>>, <<PageSize(5), PageSize(9)>> }
        \cup { <<f>> : f \in QueryFuncs }
ContinuationArgs == { <<>>, <<PageSize(9)>>, <<StartAfter("W")>> }
FileLists == { <<>>, <<"ok">>, <<"ok", "missing">> }
SinkContents == { <<7>> }
(* Inputs of the calls followed on the network: an identifier that does not  *)
(* make a URL, and a 3xx status that comes without a Location header.        *)
TwiceEndpoints ==
    { "TextToSpeech", "TextToSpeechStream", "GetModels", "GetHistory", "AddVoice" }
WireEndpoints == { "GetModels", "GetVoice", "TextToSpeech", "AddVoice" }
WireIDs == { "v1", "%" }
WireStatuses == { 200, 302, 401, 500 }

(* ------------------------------------------------------------------------ *)
(* State                                                                     *)
(* ------------------------------------------------------------------------ *)
VARIABLES
    client,           \* the Client: baseURL, apiKey, timeout
    parentCancelled,  \* whether client.ctx has been cancelled
    pc,               \* "idle", "sent" (in client.Do), "reading" (body), "done"
    call,             \* the endpoint call in progress or last made; of a chain
                      \* of continuations it also records the has_more flags
                      \* of the pages seen (seen) and the requests made for
                      \* them (before)
    req,              \* the *http.Request doRequest built
    sends,            \* number of client.Do calls made by this call
    elapsed,          \* time since doRequest derived timeoutCtx
    ctxErr,           \* timeoutCtx.Err(): "none", "DeadlineExceeded", "Canceled"
    resp,             \* the response client.Do returned: status, body, arrival
                      \* time, and whether the body was read to its end
    rcvd,             \* number of body bytes read so far
    sink,             \* content of RespBodyWriter
    result,           \* what the endpoint method returned: payload, err, next
    wire,             \* what the HTTP client put on the network for this call:
                      \* exchanges started, redirects followed, and the state
                      \* of the request context when client.Do was called
    last,             \* the previous call and its outcome, where a caller
                      \* repeats a call
    pkg,              \* the package-level state: once, defaultClient, and the
                      \* Client objects NewClient allocated for it
    gor,              \* the goroutines that use the default client: the
                      \* function each is in, its position and its locals
    shown,            \* what Error() of the returned error gave its caller
    build             \* a buildRequestBody in progress: its position, the
                      \* files it has open and those it has closed

(* The state outside a single call on an explicitly created client.          *)
aux == << last, pkg, gor, shown, build >>

(* The state of a single call on an explicitly created client.               *)
core == << client, parentCancelled, pc, call, req, sends, elapsed, ctxErr,
           resp, rcvd, sink, result, wire >>

vars == << client, parentCancelled, pc, call, req, sends, elapsed, ctxErr,
           resp, rcvd, sink, result, wire, aux >>

(* ------------------------------------------------------------------------ *)
(* Values                                                                    *)
(* ------------------------------------------------------------------------ *)
PNone == [kind |-> "none", bytes |-> <<>>, val |-> <<>>]
PNil == [kind |-> "nil", bytes |-> <<>>, val |-> <<>>]
PBytes(b) == [kind |-> "bytes", bytes |-> b, val |-> <<>>]
PTyped(v) == [kind |-> "typed", bytes |-> <<>>, val |-> v]

NoNext == [live |-> FALSE, lastId |-> ""]
NoResult == [payload |-> PNone, err |-> ErrNil, next |-> NoNext]
NoResp == [status |-> 0, body |-> <<>>, at |-> 0, eof |-> FALSE]
NoReq == [method |-> "", base |-> "", path |-> <<>>, query |-> <<>>,
          header |-> [accept |-> <<>>, contentType |-> <<>>,
                     xiApiKey |-> <<>>]]
NoCall == [ep |-> "", id1 |-> "", id2 |-> "", queries |-> <<>>, files |-> <<>>,
           sink0 |-> <<>>, via |-> FALSE, depth |-> 0, q0 |-> <<>>,
           prevId |-> "", seen |-> <<>>, before |-> 0]

ErrBuild == MkErr("build", NoDetail, NoItems, 0, "failed to build request body")
(* *url.Error of url.Parse, returned by http.NewRequestWithContext           *)
ErrURL == MkErr("url", NoDetail, NoItems, 0, "invalid URL escape")

NoWire == [exchanges |-> 0, redirects |-> 0, atDo |-> "none"]
NoLast ==
    [set |-> FALSE, call |-> NoCall, resp |-> NoResp, ctxErr |-> "none",
     written |-> <<>>, result |-> NoResult]

(* No Error() call made yet; no buildRequestBody running.                    *)
NoShown == [called |-> FALSE, panic |-> "", text |-> <<>>]
NoBuild == [pc |-> "idle", files |-> <<>>, i |-> 0, open |-> {}, closed |-> {},
            deferred |-> <<>>, err |-> "", body |-> "nil", contentType |-> ""]

(* NewClient(ctx, apiKey, reqTimeout)                                        *)
NewClient(apiKey, reqTimeout) ==
    [baseURL |-> elevenlabsBaseURL, apiKey |-> apiKey, timeout |-> reqTimeout]

(* NewMockClient(ctx, baseURL, apiKey, reqTimeout): NewClient, then the base *)
(* address replaced.                                                         *)
NewMockClient(baseURL, apiKey, reqTimeout) ==
    [NewClient(apiKey, reqTimeout) EXCEPT !.baseURL = baseURL]

(* ------------------------------------------------------------------------ *)
(* The default client: values                                                *)
(* ------------------------------------------------------------------------ *)
Goroutines == { "g1", "g2", "g3" }
DefaultKeys == { "k1", "k22" }
DefaultTimeouts == { 1, 2 }

(* A Go string is two machine words, a data pointer and a length; a store or *)
(* a load of a string field is one access per word.  The pointer is named    *)
(* after the string it points into.                                          *)
StrLen(k) == CASE k = "" -> 0 [] k = "k1" -> 2 [] k = "k22" -> 3
Str(k) == [ptr |-> k, len |-> StrLen(k)]
(* The string two words make: empty when the length is 0, "torn" when the    *)
(* words come from two different strings.                                    *)
StringOf(w) ==
    IF w.len = 0 THEN ""
    ELSE IF w.len = StrLen(w.ptr) THEN w.ptr
    ELSE "torn"

(* &Client{baseURL: elevenlabsBaseURL, apiKey: apiKey, timeout: reqTimeout,  *)
(* ctx: ctx}, as an object on the heap                                       *)
NewClientObject(ctx, apiKey, reqTimeout) ==
    [baseURL |-> elevenlabsBaseURL, apiKey |-> Str(apiKey),
     timeout |-> reqTimeout, ctx |-> ctx]

(* var once sync.Once (done flag, mutex owner); var defaultClient *Client    *)
(* (0: nil, otherwise the index of the object in heap); made: the arguments  *)
(* of the NewClient calls so far; lastw: per field, the value of the setter  *)
(* that stored to it last.                                                   *)
NoPkg ==
    [once |-> [done |-> FALSE, m |-> ""], defaultClient |-> 0, heap |-> <<>>,
     made |-> <<>>, lastw |-> [apiKey |-> "", timeout |-> defaultTimeout]]

NoG ==
    [op |-> "", key |-> "", timeout |-> 0, pc |-> "idle", after |-> {},
     c |-> 0, first |-> "", t |-> 0, kLen |-> 0, kPtr |-> "",
     header |-> <<>>]
NoGor == [g \in Goroutines |-> NoG]

(* Variant: the initialisation is guarded by a test only, without a mutex.  *)
Lock_NoMutex(m, g) == [ok |-> TRUE, m |-> g]

(* once.Do, o.m.Lock(): the mutex is taken when it is free                   *)
Lock(m, g) == [ok |-> m = "", m |-> g]

(* Variant: the setter configures a copy of the default client.             *)
StoreTimeout_Copy(c, timeout) == c

(* getDefaultClient().timeout = timeout                                      *)
StoreTimeout(c, timeout) == [c EXCEPT !.timeout = timeout]

(* getDefaultClient().apiKey = apiKey, one word of it                        *)
StoreKeyWord(c, word, apiKey) ==
    IF word = "ptr" THEN [c EXCEPT !.apiKey.ptr = Str(apiKey).ptr]
    ELSE [c EXCEPT !.apiKey.len = Str(apiKey).len]

(* ------------------------------------------------------------------------ *)
(* doRequest, first half: the context and the request                        *)
(* ------------------------------------------------------------------------ *)
(* Variant: the request context is derived from context.Background(), not   *)
(* from the context given to NewClient.                                      *)
TimeoutCtxErr_IgnoresParent(cur, cancelled, t, timeout) ==
    IF cur # "none" THEN cur
    ELSE IF t >= timeout THEN "DeadlineExceeded"
    ELSE "none"

(* Variant: the request context is the parent context, without a deadline.  *)
TimeoutCtxErr_NoDeadline(cur, cancelled, t, timeout) ==
    IF cur # "none" THEN cur
    ELSE IF cancelled THEN "Canceled"
    ELSE "none"

(* context.WithTimeout(ctx, c.timeout): the error of the derived context     *)
(* after t time units, the first cause winning.                              *)
TimeoutCtxErr(cur, cancelled, t, timeout) ==
    IF cur # "none" THEN cur
    ELSE IF cancelled THEN "Canceled"
    ELSE IF t >= timeout THEN "DeadlineExceeded"
    ELSE "none"

(* Variant: the header is added whatever the credential.                    *)
AuthHeader_Always(apiKey) == <<apiKey>>

(* if c.apiKey != "" { req.Header.Add("xi-api-key", c.apiKey) }              *)
AuthHeader(apiKey) == IF apiKey # "" THEN <<apiKey>> ELSE <<>>

(* if contentType != "" { req.Header.Add("Content-Type", contentType) }      *)
ContentTypeHeader(contentType) ==
    IF contentType # "" THEN <<contentType>> ELSE <<>>

(* req.Header.Add("Accept", "*/*")                                           *)
AcceptHeader == << "*/*" >>

(* http.NewRequestWithContext parses the URL: a "%" that does not start an   *)
(* escape makes it fail, and doRequest returns that error.                   *)
ValidURL(path) == \A i \in DOMAIN path : path[i] # "%"

(* Variant: the request is handed to the HTTP client although it could not   *)
(* be built.                                                                 *)
DoCalls_Unchecked(urlOK) == 1

(* The number of client.Do calls of one doRequest: one, none when the        *)
(* request could not be built; there is no loop around it.                   *)
DoCalls(urlOK) == IF urlOK THEN 1 ELSE 0

(* Transport.roundTrip: a request whose context is already done is not put   *)
(* on the network.                                                           *)
RoundTrips(ctxerr) == IF ctxerr = "none" THEN 1 ELSE 0

(* url.Parse of a base address: the path part of it, as pieces.              *)
BasePath(baseURL) ==
    CASE baseURL = elevenlabsBaseURL -> <<"/", "v1">>
      [] baseURL = "http://localhost:1234/" -> <<"/">>
      [] OTHER -> <<>>

(* The path of the URL a request is sent to: base address and endpoint path  *)
(* formatted into one string by fmt.Sprintf, then parsed; the parser keeps   *)
(* the path as it is written.  An empty piece leaves nothing in the string.  *)
URLPath(r) == SelectSeq(BasePath(r.base) \o r.path, LAMBDA t : t # "")

(* Variant: the path cleaned before the request is built, empty identifiers  *)
(* dropped together with the slash that follows them.                        *)
BuildRequest_CleanPath(c, method, path, contentType, queries) ==
    [method |-> method, base |-> c.baseURL,
     path |-> SelectSeq([i \in DOMAIN path |->
                            IF path[i] = "/" /\ i > 1 /\ path[i - 1] = ""
                            THEN "" ELSE path[i]],
                        LAMBDA t : t # ""),
     query |-> Encode(ApplyQueries(<<>>, queries)),
     header |-> [accept |-> AcceptHeader,
                 contentType |-> ContentTypeHeader(contentType),
                 xiApiKey |-> AuthHeader(c.apiKey)]]

BuildRequest(c, method, path, contentType, queries) ==
    [method |-> method, base |-> c.baseURL, path |-> path,
     query |-> Encode(ApplyQueries(<<>>, queries)),
     header |-> [accept |-> AcceptHeader,
                 contentType |-> ContentTypeHeader(contentType),
                 xiApiKey |-> AuthHeader(c.apiKey)]]

(* ------------------------------------------------------------------------ *)
(* doRequest, second half: classification of a response that is not 200      *)
(* ------------------------------------------------------------------------ *)
(* Variant: every 2xx status counts as success.                             *)
IsSuccess_Any2xx(status) == status \in 200..299

(* if resp.StatusCode != http.StatusOK { ... } else the body is copied       *)
IsSuccess(status) == status = StatusOK

(* Variant: 401 is not among the statuses decoded as an APIError.           *)
Classify_No401(status, respBody) ==
    IF status = StatusBadRequest
    THEN LET u == UnmarshalAPIError(respBody)
         IN IF u.err # "" THEN ErrJSON(u.err) ELSE ErrAPI(u.v)
    ELSE IF status = StatusUnprocessableEntity
    THEN LET u == UnmarshalValidationError(respBody)
         IN IF u.err # "" THEN ErrJSON(u.err) ELSE ErrValidation(u.v)
    ELSE ErrStatus(status)

(* Variant: the result of json.Unmarshal is not checked.                    *)
Classify_IgnoresDecodeError(status, respBody) ==
    IF status \in {StatusBadRequest, StatusUnauthorized}
    THEN ErrAPI(UnmarshalAPIError(respBody).v)
    ELSE IF status = StatusUnprocessableEntity
    THEN ErrValidation(UnmarshalValidationError(respBody).v)
    ELSE ErrStatus(status)

Classify(status, respBody) ==
    IF status \in {StatusBadRequest, StatusUnauthorized}
    THEN LET u == UnmarshalAPIError(respBody)
         IN IF u.err # "" THEN ErrJSON(u.err) ELSE ErrAPI(u.v)
    ELSE IF status = StatusUnprocessableEntity
    THEN LET u == UnmarshalValidationError(respBody)
         IN IF u.err # "" THEN ErrJSON(u.err) ELSE ErrValidation(u.v)
    ELSE ErrStatus(status)

(* ------------------------------------------------------------------------ *)
(* The endpoint methods, after doRequest returned                            *)
(* ------------------------------------------------------------------------ *)
ZeroPayload(ep) ==
    CASE Endpoints[ep].out = "bytes" -> PNil
      [] Endpoints[ep].out \in {"typed", "history"} ->
            PTyped(ZeroOf(Shapes[Endpoints[ep].target]))
      [] OTHER -> PNone

(* if err != nil { return <zero>, err }                                      *)
Failed(ep, err) == [payload |-> ZeroPayload(ep), err |-> err, next |-> NoNext]

(* Variant: a page without a last_history_item_id ends the iteration.       *)
MakeContinuation_NeedsCursor(page) ==
    IF page.has_more # "true" \/ page.last_history_item_id = "" THEN NoNext
    ELSE [live |-> TRUE, lastId |-> page.last_history_item_id]

(* Variant: a continuation is returned for every decoded page.              *)
MakeContinuation_Always(page) ==
    [live |-> TRUE, lastId |-> page.last_history_item_id]

(* GetHistory: the continuation exists only when the page says has_more; it  *)
(* captures the page (its last_history_item_id) and the client.              *)
MakeContinuation(page) ==
    IF page.has_more # "true" THEN NoNext
    ELSE [live |-> TRUE, lastId |-> page.last_history_item_id]

(* Variant: an empty last_history_item_id is not sent.                      *)
NextPageQueries_SkipsEmpty(qf, lastId) ==
    IF lastId = "" THEN qf ELSE Append(qf, StartAfter(lastId))

(* nextPageFunc: qf = append(qf, StartAfter(historyResp.LastHistoryItemId))  *)
NextPageQueries(qf, lastId) == Append(qf, StartAfter(lastId))

(* Variant: the error of the copy is dropped.                               *)
CopyErr_Dropped(err) == ErrNil

(* _, err = io.Copy(RespBodyWriter, resp.Body); return err                   *)
CopyErr(err) == err

(* What doRequest returns when the context or the connection fails with err  *)
(* while it is blocked: client.Do and io.ReadAll hand the error back as it   *)
(* is, the copy of a 200 body through io.Copy.                               *)
Blocked(p, status, err) ==
    IF p = "reading" /\ status = StatusOK THEN CopyErr(err) ELSE err

(* Variant: the piece is written in front of what the call wrote so far.    *)
CopyTo_Prepend(w, base, chunk) ==
    SubSeq(w, 1, base) \o <<chunk>> \o SubSeq(w, base + 1, Len(w))

(* Variant: the buffer the body is copied into is shared by the calls and   *)
(* still holds what the previous call received.                              *)
CopyTo_SharedBuffer(w, base, chunk) ==
    IF last.set /\ Len(w) = base
    THEN Append(w \o last.written, chunk)
    ELSE Append(w, chunk)

(* Variant: only the first piece of the body is written.                    *)
CopyTo_FirstOnly(w, base, chunk) ==
    IF Len(w) > base THEN w ELSE Append(w, chunk)

(* io.Copy(RespBodyWriter, resp.Body): a piece read from the body is written *)
(* to the writer, after what it already holds (base: its length before the   *)
(* call).                                                                    *)
CopyTo(w, base, chunk) == Append(w, chunk)

(* Variant: the body is copied to the writer whatever the status.            *)
Receive_CopiesErrorBody(w, base, status, chunk) == CopyTo(w, base, chunk)

(* Where doRequest puts a piece of the body: with status 200 io.Copy writes  *)
(* it to RespBodyWriter; with any other status io.ReadAll keeps it in a      *)
(* buffer of its own and the writer is not touched.                          *)
Receive(w, base, status, chunk) ==
    IF IsSuccess(status) THEN CopyTo(w, base, chunk) ELSE w

(* What the method returns when doRequest returned nil and left buf in the   *)
(* method's buffer.                                                          *)
Succeeded(ep, buf) ==
    LET e == Endpoints[ep]
        u == Unmarshal(buf, e.target)
    IN
    CASE e.out = "bytes" -> [payload |-> PBytes(buf), err |-> ErrNil, next |-> NoNext]
      [] e.out = "typed" ->
            IF u.err # ""
            THEN [payload |-> IF KeepsPartial(ep) THEN PTyped(u.v) ELSE ZeroPayload(ep),
                  err |-> ErrJSON(u.err), next |-> NoNext]
            ELSE [payload |-> PTyped(u.v), err |-> ErrNil, next |-> NoNext]
      [] e.out = "history" ->
            IF u.err # "" THEN Failed(ep, ErrJSON(u.err))
            ELSE [payload |-> PTyped(u.v), err |-> ErrNil,
                  next |-> MakeContinuation(u.v)]
      [] OTHER -> [payload |-> PNone, err |-> ErrNil, next |-> NoNext]

(* ------------------------------------------------------------------------ *)
(* Actions                                                                   *)
(* ------------------------------------------------------------------------ *)
Init ==
    /\ client \in { NewClient(k, t) : k \in APIKeys, t \in Timeouts }
    /\ parentCancelled = FALSE
    /\ pc = "idle"
    /\ call = NoCall
    /\ req = NoReq
    /\ sends = 0
    /\ elapsed = 0
    /\ ctxErr = "none"
    /\ resp = NoResp
    /\ rcvd = 0
    /\ sink = <<>>
    /\ result = NoResult
    /\ wire = NoWire
    /\ last = NoLast
    /\ pkg = NoPkg
    /\ gor = NoGor
    /\ shown = NoShown
    /\ build = NoBuild

(* An endpoint method from its entry to the point where client.Do blocks:    *)
(* build the body, derive timeoutCtx, build the request, hand it to the HTTP *)
(* client.  The HTTP client returns at once when the context is already      *)
(* done; a body that cannot be built returns before doRequest is called.     *)
Start(c) ==
    LET e == Endpoints[c.ep]
        ct == ContentTypeOf(c.ep, c.files)
        err0 == TimeoutCtxErr("none", parentCancelled, 0, client.timeout)
    IN
    /\ call' = c
    /\ elapsed' = 0
    /\ resp' = NoResp
    /\ rcvd' = 0
    /\ sink' = c.sink0
    /\ UNCHANGED << client, parentCancelled >>
    /\ IF e.body = "multipart" /\ buildRequestBody(c.files).err
       THEN /\ pc' = "done"
            /\ req' = NoReq
            /\ sends' = 0
            /\ ctxErr' = "none"
            /\ wire' = NoWire
            /\ result' = Failed(c.ep, ErrBuild)
       ELSE IF DoCalls(ValidURL(PathOf(c.ep, c.id1, c.id2))) = 0
       THEN /\ pc' = "done"
            /\ req' = NoReq
            /\ sends' = 0
            /\ ctxErr' = err0
            /\ wire' = NoWire
            /\ result' = Failed(c.ep, ErrURL)
       ELSE /\ req' = BuildRequest(client, e.method, PathOf(c.ep, c.id1, c.id2),
                                   ct, c.queries)
            /\ sends' = DoCalls(ValidURL(PathOf(c.ep, c.id1, c.id2)))
            /\ ctxErr' = err0
            /\ wire' = [exchanges |-> RoundTrips(err0), redirects |-> 0,
                        atDo |-> err0]
            /\ IF err0 # "none"
               THEN pc' = "done" /\ result' = Failed(c.ep, ErrCtx(err0))
               ELSE pc' = "sent" /\ result' = NoResult

(* The caller invokes an endpoint method of the client.                      *)
Call(ep, id1, id2, queries, files, sink0) ==
    /\ pc = "idle"
    /\ Start([ep |-> ep, id1 |-> id1, id2 |-> id2, queries |-> queries,
              files |-> files, sink0 |-> sink0, via |-> FALSE, depth |-> 0,
              q0 |-> queries, prevId |-> "", seen |-> <<>>, before |-> 0])
    /\ UNCHANGED aux

(* The caller invokes the continuation the last GetHistory returned, with    *)
(* query modifiers qf: the continuation calls c.GetHistory again.            *)
CallNext(qf) ==
    /\ pc = "done"
    /\ call.ep = "GetHistory"
    /\ result.next.live
    /\ call.depth < MaxChain
    /\ Start([ep |-> "GetHistory", id1 |-> "", id2 |-> "",
              queries |-> NextPageQueries(qf, result.next.lastId),
              files |-> <<>>, sink0 |-> <<>>, via |-> TRUE,
              depth |-> call.depth + 1, q0 |-> call.q0,
              prevId |-> result.payload.val.last_history_item_id,
              seen |-> Append(call.seen, result.payload.val.has_more),
              before |-> call.before + sends])
    /\ UNCHANGED aux

(* Time passes while the call is blocked in the HTTP client.                 *)
Tick ==
    /\ pc \in {"sent", "reading"}
    /\ ctxErr = "none"
    /\ elapsed < MaxClock
    /\ elapsed' = elapsed + 1
    /\ ctxErr' = TimeoutCtxErr(ctxErr, parentCancelled, elapsed + 1, client.timeout)
    /\ UNCHANGED << client, parentCancelled, pc, call, req, sends, resp, rcvd,
                    sink, result >>
    /\ UNCHANGED << wire, aux >>

(* The owner of the parent context cancels it.                               *)
CancelParent ==
    /\ ~parentCancelled
    /\ parentCancelled' = TRUE
    /\ ctxErr' = IF pc \in {"sent", "reading"}
                 THEN TimeoutCtxErr(ctxErr, TRUE, elapsed, client.timeout)
                 ELSE ctxErr
    /\ UNCHANGED << client, pc, call, req, sends, elapsed, resp, rcvd, sink,
                    result >>
    /\ UNCHANGED << wire, aux >>

(* client.Do returns the response: status line and headers have arrived.     *)
ServerRespond(status, body) ==
    /\ pc = "sent"
    /\ ctxErr = "none"
    /\ pc' = "reading"
    /\ resp' = [status |-> status, body |-> body, at |-> elapsed, eof |-> FALSE]
    /\ UNCHANGED << client, parentCancelled, call, req, sends, elapsed, ctxErr,
                    rcvd, sink, result >>
    /\ UNCHANGED << wire, aux >>

(* One more piece of the body arrives: io.Copy writes it to RespBodyWriter   *)
(* (status 200), io.ReadAll keeps it for the classification (otherwise).     *)
ReadBody ==
    /\ pc = "reading"
    /\ ctxErr = "none"
    /\ rcvd < Len(resp.body)
    /\ rcvd' = rcvd + 1
    /\ sink' = Receive(sink, Len(call.sink0), resp.status, resp.body[rcvd + 1])
    /\ UNCHANGED << client, parentCancelled, pc, call, req, sends, elapsed,
                    ctxErr, resp, result >>
    /\ UNCHANGED << wire, aux >>

(* The body has been read to its end: doRequest classifies the response and  *)
(* returns, the endpoint method decodes and returns.                         *)
Complete ==
    /\ pc = "reading"
    /\ ctxErr = "none"
    /\ rcvd = Len(resp.body)
    /\ pc' = "done"
    /\ resp' = [resp EXCEPT !.eof = TRUE]
    /\ result' = IF ~IsSuccess(resp.status)
                 THEN Failed(call.ep, Classify(resp.status, SubSeq(resp.body, 1, rcvd)))
                 ELSE Succeeded(call.ep, SubSeq(sink, Len(call.sink0) + 1, Len(sink)))
    /\ UNCHANGED << client, parentCancelled, call, req, sends, elapsed, ctxErr,
                    rcvd, sink >>
    /\ UNCHANGED << wire, aux >>

(* The context is done while the call is blocked: client.Do or the body      *)
(* read fails with the context's error, which the method returns.            *)
CtxDone ==
    /\ pc \in {"sent", "reading"}
    /\ ctxErr # "none"
    /\ pc' = "done"
    /\ result' = Failed(call.ep, Blocked(pc, resp.status, ErrCtx(ctxErr)))
    /\ UNCHANGED << client, parentCancelled, call, req, sends, elapsed, ctxErr,
                    resp, rcvd, sink >>
    /\ UNCHANGED << wire, aux >>

(* The connection fails while the call is blocked.                           *)
ConnFail ==
    /\ pc \in {"sent", "reading"}
    /\ ctxErr = "none"
    /\ pc' = "done"
    /\ result' = Failed(call.ep, Blocked(pc, resp.status, ErrCtx("connection")))
    /\ UNCHANGED << client, parentCancelled, call, req, sends, elapsed, ctxErr,
                    resp, rcvd, sink >>
    /\ UNCHANGED << wire, aux >>

(* The caller has looked at what the method returned and is ready for its   *)
(* next call; a continuation it does not invoke now is dropped.              *)
Return ==
    /\ pc = "done"
    /\ pc' = "idle"
    /\ call' = NoCall
    /\ req' = NoReq
    /\ sends' = 0
    /\ elapsed' = 0
    /\ ctxErr' = "none"
    /\ resp' = NoResp
    /\ rcvd' = 0
    /\ sink' = <<>>
    /\ result' = NoResult
    /\ wire' = NoWire
    /\ UNCHANGED << client, parentCancelled, aux >>

Next ==
    \/ /\ pc = "idle"
       /\ \E ep \in EndpointNames :
          \E id1 \in (IF Endpoints[ep].ids >= 1 THEN IDs ELSE {""}),
             id2 \in (IF Endpoints[ep].ids >= 2 THEN IDs ELSE {""}),
             q \in (IF Endpoints[ep].queries THEN QuerySeqs ELSE {<<>>}),
             f \in (IF Endpoints[ep].body = "multipart" THEN FileLists ELSE {<<>>}),
             s0 \in (IF Endpoints[ep].out = "stream" THEN SinkContents ELSE {<<>>}) :
             Call(ep, id1, id2, q, f, s0)
    \/ /\ pc = "done"
       /\ \E qf \in ContinuationArgs : CallNext(qf)
    \/ Tick
    \/ CancelParent
    \/ /\ pc = "sent"
       /\ \E status \in Statuses, body \in Bodies : ServerRespond(status, body)
    \/ ReadBody
    \/ Complete
    \/ CtxDone
    \/ ConnFail
    \/ Return

Spec == Init /\ [][Next]_vars

(* ------------------------------------------------------------------------ *)
(* The calls as seen on the network                                          *)
(* ------------------------------------------------------------------------ *)
(* The server answers with a redirection (a 3xx status and a Location        *)
(* header): the http.Client of doRequest has no CheckRedirect, so it follows *)
(* it with one more exchange before client.Do returns.                       *)
Redirect ==
    /\ pc = "sent"
    /\ ctxErr = "none"
    /\ wire.redirects < MaxRedirects
    /\ wire' = [wire EXCEPT !.exchanges = @ + 1, !.redirects = @ + 1]
    /\ UNCHANGED << client, parentCancelled, pc, call, req, sends, elapsed,
                    ctxErr, resp, rcvd, sink, result, aux >>

NextWire ==
    \/ /\ pc = "idle"
       /\ \E ep \in WireEndpoints :
          \E id1 \in (IF Endpoints[ep].ids >= 1 THEN WireIDs ELSE {""}),
             f \in (IF Endpoints[ep].body = "multipart" THEN FileLists ELSE {<<>>}) :
             Call(ep, id1, "", <<>>, f, <<>>)
    \/ Tick
    \/ CancelParent
    \/ /\ pc = "sent"
       /\ \E status \in WireStatuses : ServerRespond(status, <<1>>)
    \/ Redirect
    \/ ReadBody
    \/ Complete
    \/ CtxDone
    \/ ConnFail
    \/ Return

SpecWire == Init /\ [][NextWire]_vars

(* ------------------------------------------------------------------------ *)
(* A caller that makes a call and then the same call again                   *)
(* ------------------------------------------------------------------------ *)
(* The caller keeps what the call returned and invokes the same method of    *)
(* the same client with the same arguments (for the streaming method: a      *)
(* writer that holds what the first one held).                               *)
CallAgain ==
    /\ pc = "done"
    /\ ~last.set
    /\ last' = [set |-> TRUE, call |-> call, resp |-> resp, ctxErr |-> ctxErr,
                written |-> SubSeq(sink, Len(call.sink0) + 1, Len(sink)),
                result |-> result]
    /\ Start(call)
    /\ UNCHANGED << pkg, gor, shown, build >>

(* The server answers the second request as it answered the first.           *)
ServerRespondSame(status, body) ==
    /\ last.set /\ last.resp.status # 0
          => status = last.resp.status /\ body = last.resp.body
    /\ ServerRespond(status, body)

NextTwice ==
    \/ /\ pc = "idle"
       /\ \E ep \in TwiceEndpoints :
          \E id1 \in (IF Endpoints[ep].ids >= 1 THEN IDs ELSE {""}),
             f \in (IF Endpoints[ep].body = "multipart" THEN FileLists ELSE {<<>>}),
             s0 \in (IF Endpoints[ep].out = "stream" THEN SinkContents ELSE {<<>>}) :
             Call(ep, id1, "", <<>>, f, s0)
    \/ CallAgain
    \/ Tick
    \/ CancelParent
    \/ /\ pc = "sent"
       /\ \E status \in Statuses, body \in Bodies : ServerRespondSame(status, body)
    \/ ReadBody
    \/ Complete
    \/ CtxDone
    \/ ConnFail

SpecTwice == Init /\ [][NextTwice]_vars

(* ------------------------------------------------------------------------ *)
(* Calls on clients with another base address and with empty identifiers     *)
(* ------------------------------------------------------------------------ *)
InitURL ==
    /\ client \in { NewMockClient(b, "k1", MaxTimeout) :
                      b \in { elevenlabsBaseURL, "http://localhost:1234",
                              "http://localhost:1234/" } }
    /\ parentCancelled = FALSE
    /\ pc = "idle"
    /\ call = NoCall
    /\ req = NoReq
    /\ sends = 0
    /\ elapsed = 0
    /\ ctxErr = "none"
    /\ resp = NoResp
    /\ rcvd = 0
    /\ sink = <<>>
    /\ result = NoResult
    /\ wire = NoWire
    /\ last = NoLast
    /\ pkg = NoPkg
    /\ gor = NoGor
    /\ shown = NoShown
    /\ build = NoBuild

NextURL ==
    \/ /\ pc = "idle"
       /\ \E ep \in EndpointNames :
          \E id1 \in (IF Endpoints[ep].ids >= 1 THEN {"v1", ""} ELSE {""}),
             id2 \in (IF Endpoints[ep].ids >= 2 THEN {"v1", ""} ELSE {""}) :
             Call(ep, id1, id2, <<>>, <<>>, <<>>)
    \/ /\ pc = "sent"
       /\ ServerRespond(200, <<1>>)
    \/ ReadBody
    \/ Complete
    \/ Return

SpecURL == InitURL /\ [][NextURL]_vars

(* ------------------------------------------------------------------------ *)
(* buildRequestBody step by step: the files it opens and closes              *)
(* ------------------------------------------------------------------------ *)
(* Variant: one slot for the deferred call, a later defer replaces it.       *)
Defer_Replaces(deferred, f) == << f >>

(* defer f.Close(): one more call to run when the function returns.          *)
Defer(deferred, f) == Append(deferred, f)

(* buildFailed(err): nil, "", the wrapped error.                             *)
buildFailed(b, err) ==
    [b EXCEPT !.pc = "defers", !.err = err, !.body = "nil", !.contentType = ""]

(* voiceReq.buildRequestBody() is called: the writer is created and the      *)
(* name, description and labels fields are written to the buffer.            *)
BuildCall(files) ==
    /\ build.pc = "idle"
    /\ build' = [NoBuild EXCEPT !.pc = "loop", !.files = files, !.i = 1]
    /\ UNCHANGED << core, last, pkg, gor, shown >>

(* os.Open(file) at the head of the loop, then defer f.Close().              *)
OpenFile ==
    /\ build.pc = "loop"
    /\ build.i <= Len(build.files)
    /\ build' = IF build.files[build.i] = "missing"
                THEN buildFailed(build, "open")
                ELSE [build EXCEPT !.pc = "create",
                                   !.open = @ \cup {build.i},
                                   !.deferred = Defer(@, build.i)]
    /\ UNCHANGED << core, last, pkg, gor, shown >>

(* w.CreateFormFile("files", filepath.Base(file)): the part header goes to   *)
(* the buffer, which takes every write.                                      *)
CreateFormFile ==
    /\ build.pc = "create"
    /\ build' = [build EXCEPT !.pc = "copy"]
    /\ UNCHANGED << core, last, pkg, gor, shown >>

(* io.Copy(fw, f): fails when the file cannot be read.                       *)
CopyFile ==
    /\ build.pc = "copy"
    /\ build' = IF build.files[build.i] = "dir"
                THEN buildFailed(build, "copy")
                ELSE [build EXCEPT !.pc = "loop", !.i = @ + 1]
    /\ UNCHANGED << core, last, pkg, gor, shown >>

(* After the loop: w.Close() and return &b, w.FormDataContentType(), nil.    *)
CloseWriter ==
    /\ build.pc = "loop"
    /\ build.i > Len(build.files)
    /\ build' = [build EXCEPT !.pc = "defers", !.body = "buffer",
                              !.contentType = contentTypeMultipart]
    /\ UNCHANGED << core, last, pkg, gor, shown >>

(* The function returns: its deferred calls run, last one first.             *)
RunDeferred ==
    /\ build.pc = "defers"
    /\ build.deferred # <<>>
    /\ LET f == build.deferred[Len(build.deferred)] IN
       build' = [build EXCEPT !.open = @ \ {f}, !.closed = @ \cup {f},
                              !.deferred = SubSeq(@, 1, Len(@) - 1)]
    /\ UNCHANGED << core, last, pkg, gor, shown >>

(* All deferred calls have run: the caller has the three results.            *)
BuildReturn ==
    /\ build.pc = "defers"
    /\ build.deferred = <<>>
    /\ build' = [build EXCEPT !.pc = "done"]
    /\ UNCHANGED << core, last, pkg, gor, shown >>

(* The caller goes on to its next request body.                              *)
BuildNext ==
    /\ build.pc = "done"
    /\ build' = NoBuild
    /\ UNCHANGED << core, last, pkg, gor, shown >>

NextBuild ==
    \/ /\ build.pc = "idle"
       /\ \E files \in UNION { [1..n -> {"ok", "missing", "dir"}] : n \in 0..MaxFiles } :
             BuildCall(files)
    \/ OpenFile
    \/ CreateFormFile
    \/ CopyFile
    \/ CloseWriter
    \/ RunDeferred
    \/ BuildReturn
    \/ BuildNext

SpecBuild == Init /\ [][NextBuild]_vars

(* ------------------------------------------------------------------------ *)
(* Calls with query modifiers in every order                                 *)
(* ------------------------------------------------------------------------ *)
NextQuery ==
    \/ /\ pc = "idle"
       /\ \E ep \in { "GetHistory", "TextToSpeech" },
             q \in UNION { [1..n -> QueryFuncs] : n \in 0..MaxQueries } :
          \E id1 \in (IF Endpoints[ep].ids >= 1 THEN IDs ELSE {""}) :
             Call(ep, id1, "", q, <<>>, <<>>)
    \/ /\ pc = "sent"
       /\ ServerRespond(200, <<1>>)
    \/ ReadBody
    \/ Complete
    \/ Return

SpecQuery == Init /\ [][NextQuery]_vars

(* ------------------------------------------------------------------------ *)
(* A caller that asks the returned error for its message                     *)
(* ------------------------------------------------------------------------ *)
(* The caller calls Error() on the *APIError or *ValidationError returned.   *)
ErrorString ==
    /\ pc = "done"
    /\ ~shown.called
    /\ result.err.kind \in {"APIError", "ValidationError"}
    /\ shown' = LET r == IF result.err.kind = "APIError"
                         THEN [panic |-> "", text |-> APIErrorError(result.err)]
                         ELSE ValidationErrorError(result.err)
                IN [called |-> TRUE, panic |-> r.panic, text |-> r.text]
    /\ UNCHANGED << core, last, pkg, gor, build >>

NextError ==
    \/ /\ pc = "idle"
       /\ \E ep \in { "GetModels", "TextToSpeech" } :
          \E id1 \in (IF Endpoints[ep].ids >= 1 THEN IDs ELSE {""}) :
             Call(ep, id1, "", <<>>, <<>>, <<>>)
    \/ /\ pc = "sent"
       /\ \E status \in { 200, 400, 422 }, body \in Bodies :
             ServerRespond(status, body)
    \/ ReadBody
    \/ Complete
    \/ ErrorString

SpecError == Init /\ [][NextError]_vars

(* ------------------------------------------------------------------------ *)
(* The default client: getDefaultClient, SetAPIKey, SetTimeout and a proxy   *)
(* function, run by goroutines that share the package-level state            *)
(* ------------------------------------------------------------------------ *)
(* A goroutine enters one of the functions; each starts with a call of       *)
(* getDefaultClient.  after: the goroutines that had returned by then.       *)
Enter(g, op, apiKey, timeout) ==
    /\ gor[g].pc = "idle"
    /\ gor' = [gor EXCEPT ![g] =
                  [NoG EXCEPT !.op = op, !.key = apiKey, !.timeout = timeout,
                              !.pc = "once",
                              !.after = { h \in Goroutines : gor[h].pc = "done" }]]
    /\ UNCHANGED << core, shown, build, last, pkg >>

SetAPIKey(g, apiKey) == Enter(g, "SetAPIKey", apiKey, 0)
SetTimeout(g, timeout) == Enter(g, "SetTimeout", "", timeout)
(* func GetModels() ([]Model, error) { return getDefaultClient().GetModels() } *)
GetModelsProxy(g) == Enter(g, "GetModels", "", 0)

(* once.Do: if o.done.Load() == 0 { o.doSlow(f) }                            *)
OnceDo(g) ==
    /\ gor[g].pc = "once"
    /\ gor' = [gor EXCEPT ![g].pc = IF pkg.once.done THEN "ret" ELSE "lock"]
    /\ UNCHANGED << core, shown, build, last, pkg >>

(* doSlow: o.m.Lock()                                                        *)
OnceLock(g) ==
    /\ gor[g].pc = "lock"
    /\ Lock(pkg.once.m, g).ok
    /\ pkg' = [pkg EXCEPT !.once.m = Lock(pkg.once.m, g).m]
    /\ gor' = [gor EXCEPT ![g].pc = "slow"]
    /\ UNCHANGED << core, shown, build, last >>

(* doSlow: if o.done.Load() == 0 { f() }, where f is                         *)
(* defaultClient = NewClient(context.Background(), "", defaultTimeout)       *)
OnceInit(g) ==
    /\ gor[g].pc = "slow"
    /\ IF pkg.once.done
       THEN /\ gor' = [gor EXCEPT ![g].pc = "unlock"]
            /\ pkg' = pkg
       ELSE /\ gor' = [gor EXCEPT ![g].pc = "store"]
            /\ pkg' = [pkg EXCEPT
                          !.heap = Append(@, NewClientObject("Background", "",
                                                             defaultTimeout)),
                          !.defaultClient = Len(pkg.heap) + 1,
                          !.made = Append(@, [ctx |-> "Background", apiKey |-> "",
                                              reqTimeout |-> defaultTimeout])]
    /\ UNCHANGED << core, shown, build, last >>

(* doSlow: defer o.done.Store(1)                                             *)
OnceDone(g) ==
    /\ gor[g].pc = "store"
    /\ pkg' = [pkg EXCEPT !.once.done = TRUE]
    /\ gor' = [gor EXCEPT ![g].pc = "unlock"]
    /\ UNCHANGED << core, shown, build, last >>

(* doSlow: defer o.m.Unlock()                                                *)
OnceUnlock(g) ==
    /\ gor[g].pc = "unlock"
    /\ pkg' = [pkg EXCEPT !.once.m = ""]
    /\ gor' = [gor EXCEPT ![g].pc = "ret"]
    /\ UNCHANGED << core, shown, build, last >>

(* return defaultClient: the caller goes on with the pointer it got          *)
getDefaultClient(g) ==
    /\ gor[g].pc = "ret"
    /\ gor' = [gor EXCEPT ![g].c = pkg.defaultClient,
                          ![g].pc = CASE gor[g].op = "SetAPIKey" -> "w1"
                                      [] gor[g].op = "SetTimeout" -> "wt"
                                      [] OTHER -> "rt"]
    /\ UNCHANGED << core, shown, build, last, pkg >>

(* SetAPIKey: .apiKey = apiKey, a store of two words in the order the build  *)
(* chose, with nothing that keeps other goroutines out in between.           *)
StoreAPIKey(g, word) ==
    /\ \/ gor[g].pc = "w1"
       \/ gor[g].pc = "w2" /\ word # gor[g].first
    /\ pkg' = [pkg EXCEPT
                  !.heap[gor[g].c] = StoreKeyWord(@, word, gor[g].key),
                  !.lastw.apiKey = gor[g].key]
    /\ gor' = [gor EXCEPT ![g].first = word,
                          ![g].pc = IF gor[g].pc = "w1" THEN "w2" ELSE "done"]
    /\ UNCHANGED << core, shown, build, last >>

(* SetTimeout: .timeout = timeout                                            *)
StoreTimeoutField(g) ==
    /\ gor[g].pc = "wt"
    /\ pkg' = [pkg EXCEPT
                  !.heap[gor[g].c] = StoreTimeout(@, gor[g].timeout),
                  !.lastw.timeout = gor[g].timeout]
    /\ gor' = [gor EXCEPT ![g].pc = "done"]
    /\ UNCHANGED << core, shown, build, last >>

(* doRequest: context.WithTimeout(ctx, c.timeout) reads the timeout          *)
WithTimeout(g) ==
    /\ gor[g].pc = "rt"
    /\ gor' = [gor EXCEPT ![g].t = pkg.heap[gor[g].c].timeout, ![g].pc = "rk"]
    /\ UNCHANGED << core, shown, build, last, pkg >>

(* doRequest: if c.apiKey != "" tests the length word                        *)
TestAPIKey(g) ==
    /\ gor[g].pc = "rk"
    /\ gor' = [gor EXCEPT ![g].kLen = pkg.heap[gor[g].c].apiKey.len,
                          ![g].pc = IF pkg.heap[gor[g].c].apiKey.len = 0
                                    THEN "done" ELSE "ra"]
    /\ UNCHANGED << core, shown, build, last, pkg >>

(* doRequest: req.Header.Add("xi-api-key", c.apiKey) loads the pointer word  *)
LoadAPIKey(g) ==
    /\ gor[g].pc = "ra"
    /\ gor' = [gor EXCEPT ![g].kPtr = pkg.heap[gor[g].c].apiKey.ptr,
                          ![g].pc = "rb"]
    /\ UNCHANGED << core, shown, build, last, pkg >>

(* ... and the length word, loaded again or kept from the test as the build  *)
(* chose; the header gets the string the two words make.                     *)
AddAPIKey(g, reload) ==
    /\ gor[g].pc = "rb"
    /\ gor' = [gor EXCEPT
                  ![g].header =
                      << StringOf([ptr |-> gor[g].kPtr,
                                   len |-> IF reload
                                           THEN pkg.heap[gor[g].c].apiKey.len
                                           ELSE gor[g].kLen]) >>,
                  ![g].pc = "done"]
    /\ UNCHANGED << core, shown, build, last, pkg >>

InitDefault ==
    /\ client = NewClient("", 0)
    /\ parentCancelled = FALSE
    /\ pc = "idle"
    /\ call = NoCall
    /\ req = NoReq
    /\ sends = 0
    /\ elapsed = 0
    /\ ctxErr = "none"
    /\ resp = NoResp
    /\ rcvd = 0
    /\ sink = <<>>
    /\ result = NoResult
    /\ wire = NoWire
    /\ last = NoLast
    /\ pkg = NoPkg
    /\ gor = NoGor
    /\ shown = NoShown
    /\ build = NoBuild

NextDefault ==
    \E g \in Goroutines :
        \/ \E apiKey \in DefaultKeys : SetAPIKey(g, apiKey)
        \/ \E timeout \in DefaultTimeouts : SetTimeout(g, timeout)
        \/ GetModelsProxy(g)
        \/ OnceDo(g)
        \/ OnceLock(g)
        \/ OnceInit(g)
        \/ OnceDone(g)
        \/ OnceUnlock(g)
        \/ getDefaultClient(g)
        \/ \E word \in {"ptr", "len"} : StoreAPIKey(g, word)
        \/ StoreTimeoutField(g)
        \/ WithTimeout(g)
        \/ TestAPIKey(g)
        \/ LoadAPIKey(g)
        \/ \E reload \in BOOLEAN : AddAPIKey(g, reload)

SpecDefault == InitDefault /\ [][NextDefault]_vars

(* ------------------------------------------------------------------------ *)
(* Properties                                                                *)
(* ------------------------------------------------------------------------ *)
Range(f) == { f[i] : i \in DOMAIN f }

(* The call is over and its response was received whole: client.Do returned  *)
(* it and the body was read to its end.                                      *)
Received == pc = "done" /\ resp.eof

(* A JSON document of the API-error shape                                    *)
IsAPIErrorShape(j) ==
    /\ j.t = "obj"
    /\ Get(j, "detail").t = "obj"
    /\ HasKey(Get(j, "detail"), "status") /\ Get(Get(j, "detail"), "status").t = "str"
    /\ HasKey(Get(j, "detail"), "message") /\ Get(Get(j, "detail"), "message").t = "str"

(* A JSON document of the validation-error shape: a list of entries whose    *)
(* location segments are strings or integer indices.                         *)
IsValidationShape(j) ==
    /\ j.t = "obj"
    /\ Get(j, "detail").t = "arr"
    /\ \A i \in DOMAIN Get(j, "detail").a :
          LET e == Get(j, "detail").a[i] IN
          /\ e.t = "obj"
          /\ Get(e, "loc").t = "arr"
          /\ \A n \in DOMAIN Get(e, "loc").a : Get(e, "loc").a[n].t \in {"str", "num"}
          /\ Get(e, "msg").t = "str"
          /\ Get(e, "type").t = "str"

(* C1: whatever the endpoint, a response with status 400 or 401 whose body   *)
(* decodes as the API-error shape makes the call return an *APIError that    *)
(* carries the status and the message of the body, with no success payload.  *)
C1_APIErrorOn400And401 ==
    (Received /\ resp.status \in {400, 401} /\ IsAPIErrorShape(Parse(resp.body)))
        => /\ result.err.kind = "APIError"
           /\ result.err.api.status = Get(Get(Parse(resp.body), "detail"), "status").s
           /\ result.err.api.message = Get(Get(Parse(resp.body), "detail"), "message").s
           /\ result.payload = ZeroPayload(call.ep)
           /\ ~result.next.live

C1_Witness ==
    /\ Received /\ resp.status = 401 /\ call.ep = "GetModels"
    /\ result.err.kind = "APIError"
    /\ result.err.api.status = "needs_authorization"
    /\ result.err.api.message = "no key"

(* C2: whatever the endpoint, a response with status 422 whose body has the  *)
(* validation-error shape (location segments being strings or integers)      *)
(* makes the call return a *ValidationError holding the entries of the body, *)
(* with no success payload.                                                  *)
C2_ValidationErrorOn422 ==
    (Received /\ resp.status = 422 /\ IsValidationShape(Parse(resp.body)))
        => /\ result.err.kind = "ValidationError"
           /\ ~result.err.val.isNil
           /\ Len(result.err.val.items) = Len(Get(Parse(resp.body), "detail").a)
           /\ result.payload = ZeroPayload(call.ep)
           /\ ~result.next.live

C2_Witness ==
    /\ Received /\ resp.status = 422 /\ call.ep = "TextToSpeech"
    /\ result.err.kind = "ValidationError"
    /\ Len(result.err.val.items) = 2
    /\ result.err.val.items[1].loc = <<"body", "0">>

(* C3: whatever the endpoint and the body, a response with a status other    *)
(* than 200, 400, 401 and 422 (201 included) makes the call return the       *)
(* opaque "unexpected HTTP status" error with the code and its status text,  *)
(* and nothing decoded from the body.                                        *)
C3_OpaqueErrorOnOtherStatus ==
    (Received /\ resp.status \notin {200, 400, 401, 422})
        => /\ result.err.kind = "unexpected HTTP status"
           /\ result.err.code = resp.status
           /\ result.err.text = StatusText(resp.status)
           /\ result.err.api = NoDetail
           /\ result.err.val = NoItems
           /\ result.payload = ZeroPayload(call.ep)
           /\ ~result.next.live

C3_Witness ==
    /\ Received /\ resp.status = 201 /\ resp.body = <<1, 1>>
    /\ result.err.kind = "unexpected HTTP status"
    /\ result.err.text = "Created"

(* The endpoint methods that return the bytes of the response body          *)
RawBytesEndpoints == { e \in EndpointNames : Endpoints[e].out = "bytes" }

(* C4: a raw-bytes endpoint that received a 200 response returns a nil error *)
(* and exactly the bytes of the response body.                               *)
C4_RawBytesOn200 ==
    (Received /\ resp.status = 200 /\ call.ep \in RawBytesEndpoints)
        => /\ result.err.kind = "nil"
           /\ result.payload.kind = "bytes"
           /\ result.payload.bytes = resp.body

C4_Witness ==
    /\ Received /\ resp.status = 200 /\ call.ep = "TextToSpeech"
    /\ result.err.kind = "nil"
    /\ result.payload.bytes = <<3, 1>>

(* C5: a body that does not decode is reported as a decoding error: with     *)
(* status 400, 401 or 422 the call returns the JSON error and neither an     *)
(* *APIError nor a *ValidationError; with status 200 a typed endpoint        *)
(* returns the JSON error instead of a nil error.  A body that is not JSON   *)
(* at all gives the syntax error.                                            *)
C5_DecodingFailureSurfaced ==
    /\ (Received /\ resp.status \in {400, 401}
            /\ UnmarshalAPIError(resp.body).err # "")
          => result.err.kind = "json"
    /\ (Received /\ resp.status = 422
            /\ UnmarshalValidationError(resp.body).err # "")
          => result.err.kind = "json"
    /\ (Received /\ resp.status = 200
            /\ Endpoints[call.ep].out \in {"typed", "history"}
            /\ Unmarshal(resp.body, Endpoints[call.ep].target).err # "")
          => result.err.kind = "json"
    /\ (Received /\ Parse(resp.body).t = "bad"
            /\ \/ resp.status \in {400, 401, 422}
               \/ resp.status = 200 /\ Endpoints[call.ep].out \in {"typed", "history"})
          => result.err.kind = "json" /\ result.err.text = "syntax"

C5_Witness ==
    /\ Received /\ resp.status = 401 /\ resp.body = <<1, 3>>
    /\ result.err.kind = "json" /\ result.err.text = "type"

(* C6: every request the executor builds carries no xi-api-key header when   *)
(* the client's credential is empty, and exactly one, equal to the           *)
(* credential, when it is not.                                               *)
C6_AuthHeaderMatchesCredential ==
    (sends = 1)
        => /\ client.apiKey = "" => req.header.xiApiKey = <<>>
           /\ client.apiKey # "" => req.header.xiApiKey = <<client.apiKey>>

C6_Witness ==
    /\ pc = "sent" /\ client.apiKey = "k1" /\ req.header.xiApiKey = <<"k1">>

(* C7: when no response has arrived by the time the configured timeout has   *)
(* elapsed (and the parent context is not cancelled), the call returns an    *)
(* error that is context.DeadlineExceeded and no success payload, whatever   *)
(* the server would have answered later.                                     *)
C7_TimeoutYieldsDeadlineExceeded ==
    (/\ pc = "done" /\ sends = 1 /\ ~parentCancelled
     /\ elapsed >= client.timeout
     /\ (resp.status = 0 \/ resp.at >= client.timeout))
        => /\ result.err.kind = "transport"
           /\ result.err.text = "DeadlineExceeded"
           /\ result.payload = ZeroPayload(call.ep)
           /\ ~result.next.live

C7_Witness ==
    /\ pc = "done" /\ client.timeout = 1 /\ elapsed = 1 /\ resp.status = 0
    /\ call.ep = "TextToSpeech"
    /\ result.err.text = "DeadlineExceeded" /\ result.payload.kind = "nil"

(* C8: GetHistory, called directly or through a continuation, returns a      *)
(* continuation exactly when it returns a nil error and a page whose         *)
(* has_more is true, that is exactly when a 200 response was received whose  *)
(* body decodes with has_more = true.                                        *)
C8_ContinuationIffHasMore ==
    (pc = "done" /\ call.ep = "GetHistory")
        => /\ result.next.live
              <=> (result.err.kind = "nil" /\ result.payload.val.has_more = "true")
           /\ result.next.live
              <=> (/\ Received /\ resp.status = 200
                   /\ Parse(resp.body).t = "obj"
                   /\ Unmarshal(resp.body, "GetHistoryResponse").err = ""
                   /\ Get(Parse(resp.body), "has_more").t = "bool"
                   /\ Get(Parse(resp.body), "has_more").s = "true")

C8_Witness ==
    /\ pc = "done" /\ call.ep = "GetHistory" /\ call.via
    /\ result.next.live /\ result.payload.val.has_more = "true"

(* C9: invoking a continuation hands exactly one request to the HTTP client, *)
(* a GET of the history listing whose query contains                         *)
(* start_after_history_item_id with the last_history_item_id of the page     *)
(* returned together with that continuation, at every depth of the chain and *)
(* also when that identifier is empty.                                       *)
C9_ContinuationSendsCursor ==
    (call.via /\ pc # "idle")
        => /\ sends = 1
           /\ req.method = "GET"
           /\ req.path = <<"/", "history">>
           /\ <<"start_after_history_item_id", call.prevId>> \in Range(req.query)

C9_Witness ==
    /\ call.via /\ pc = "sent" /\ call.depth = 2 /\ call.prevId = ""
    /\ <<"start_after_history_item_id", "">> \in Range(req.query)

(* C10: the request of a continuation carries the page_size of the original  *)
(* GetHistory call unless the caller passes a PageSize to the continuation.  *)
C10_PageSizeReplayed ==
    (call.via /\ pc # "idle"
        /\ ~\E i \in DOMAIN call.queries : call.queries[i].key = "page_size")
        => \A i \in DOMAIN call.q0 :
              call.q0[i].key = "page_size"
                 => <<"page_size", call.q0[i].value>> \in Range(req.query)

(* C11: a caller that invokes the continuation until it is nil makes exactly *)
(* N listing requests when the N-th page is the first with has_more = false: *)
(* every earlier page of the chain said has_more = true, one request was     *)
(* made per page, and the page with has_more = false comes without a         *)
(* continuation.  A page with has_more = true always comes with one, however *)
(* long the chain already is.                                                *)
C11_IterationEndsAtFirstLastPage ==
    (pc = "done" /\ call.ep = "GetHistory" /\ result.err.kind = "nil")
        => /\ \A i \in DOMAIN call.seen : call.seen[i] = "true"
           /\ call.before + sends = Len(call.seen) + 1
           /\ result.payload.val.has_more # "true" => ~result.next.live
           /\ result.payload.val.has_more = "true" => result.next.live

C11_Witness ==
    /\ pc = "done" /\ call.ep = "GetHistory" /\ result.err.kind = "nil"
    /\ call.seen = <<"true", "true">> /\ call.before + sends = 3
    /\ result.payload.val.has_more = "false" /\ ~result.next.live

(* The values a list of key/value pairs holds for a key, in their order      *)
ValuesFor(pairs, k) ==
    LET sel == SelectSeq(pairs, LAMBDA p : p[1] = k)
    IN [i \in DOMAIN sel |-> sel[i][2]]

(* C12: the query string of a request holds every key/value pair the query   *)
(* modifiers of the call added; the values of a key that                     *)
(* several modifiers added are all there, in the order of the modifiers.     *)
C12_QueryHoldsEveryPair ==
    (sends = 1)
        => /\ \A i \in DOMAIN call.queries :
                 <<call.queries[i].key, call.queries[i].value>> \in Range(req.query)
           /\ \A k \in Range(SortedKeys) :
                 ValuesFor(req.query, k) =
                    ValuesFor([i \in DOMAIN call.queries |->
                                  <<call.queries[i].key, call.queries[i].value>>], k)

C12_Witness ==
    /\ pc = "sent" /\ call.queries = <<PageSize(5), PageSize(9)>>
    /\ req.query = << <<"page_size", "5">>, <<"page_size", "9">> >>

(* doRequest was invoked by the call in progress or just over: every call    *)
(* but one whose multipart body could not be built.                          *)
Invoked == pc # "idle" /\ ~(pc = "done" /\ result.err = ErrBuild)

C14_CancelledParentFailsCalls ==
    [][ (parentCancelled /\ pc' = "done" /\ (pc # "done" \/ call' # call))
           => /\ result'.err.kind # "nil"
              /\ result'.payload = ZeroPayload(call'.ep)
              /\ ~result'.next.live ]_vars

C14_Witness ==
    /\ parentCancelled /\ pc = "done" /\ call.ep = "GetHistory"
    /\ resp.status = 200 /\ rcvd = 1 /\ Len(resp.body) = 2
    /\ wire.atDo = "none"
    /\ result.err.kind = "transport" /\ result.err.text = "Canceled"

(* The goroutine has got its pointer from getDefaultClient.                  *)
HasClient(g) == gor[g].pc \in {"w1", "w2", "wt", "rt", "rk", "ra", "rb", "done"}

(* No goroutine is inside SetAPIKey, SetTimeout or a proxy function.         *)
AllReturned == \A g \in Goroutines : gor[g].pc \in {"idle", "done"}

(* C15: under every interleaving of first uses of the default client by      *)
(* SetAPIKey, SetTimeout and a proxy function, NewClient is called at most   *)
(* once, with context.Background(), an empty credential and the timeout of   *)
(* 30 seconds, and every goroutine that got the default client got that one  *)
(* object.                                                                   *)
C15_DefaultClientCreatedOnce ==
    /\ Len(pkg.made) <= 1
    /\ Len(pkg.heap) = Len(pkg.made)
    /\ \A i \in DOMAIN pkg.made :
          pkg.made[i] = [ctx |-> "Background", apiKey |-> "", reqTimeout |-> 30]
    /\ \A g \in Goroutines :
          HasClient(g)
             => Len(pkg.made) = 1 /\ pkg.defaultClient = 1 /\ gor[g].c = 1

C15_Witness ==
    /\ \A g \in Goroutines : gor[g].pc = "done" /\ gor[g].after = {} /\ gor[g].c = 1
    /\ { gor[g].op : g \in Goroutines } = {"SetAPIKey", "SetTimeout", "GetModels"}
    /\ Len(pkg.made) = 1

(* C16: when SetAPIKey(k) and SetTimeout(t) have returned, in either order,  *)
(* and no other setter runs, the default client has credential k, timeout t, *)
(* the base address and the background context it was created with; a call   *)
(* through a proxy function started after both derives its context with      *)
(* timeout t and sends k as its xi-api-key header.                           *)
C16_SettersConfigureDefaultClient ==
    \A a, b, g \in Goroutines :
       (/\ a # b /\ g # a /\ g # b
        /\ gor[a].op = "SetAPIKey" /\ gor[a].pc = "done"
        /\ gor[b].op = "SetTimeout" /\ gor[b].pc = "done"
        /\ gor[g].op \in {"", "GetModels"})
          => /\ StringOf(pkg.heap[pkg.defaultClient].apiKey) = gor[a].key
             /\ pkg.heap[pkg.defaultClient].timeout = gor[b].timeout
             /\ pkg.heap[pkg.defaultClient].baseURL = elevenlabsBaseURL
             /\ pkg.heap[pkg.defaultClient].ctx = "Background"
             /\ (gor[g].pc = "done" /\ gor[g].after = {a, b})
                   => /\ gor[g].t = gor[b].timeout
                      /\ gor[g].header = AuthHeader(gor[a].key)

C16_Witness ==
    /\ gor["g3"].op = "GetModels" /\ gor["g3"].pc = "done"
    /\ gor["g3"].after = {"g1", "g2"}
    /\ gor["g1"].op = "SetAPIKey" /\ gor["g1"].key = "k22"
    /\ gor["g1"].after = {"g2"}
    /\ gor["g2"].op = "SetTimeout" /\ gor["g2"].timeout = 2
    /\ gor["g3"].t = 2 /\ gor["g3"].header = <<"k22">>

(* C17: once every SetAPIKey and SetTimeout, whether or not they ran         *)
(* concurrently with each other and with a call, has returned, the timeout   *)
(* and the credential of the default client are the values of the setters    *)
(* that wrote them last.                                                     *)
C17_LastWriterWins ==
    (AllReturned /\ pkg.defaultClient # 0)
        => /\ pkg.heap[pkg.defaultClient].timeout = pkg.lastw.timeout
           /\ StringOf(pkg.heap[pkg.defaultClient].apiKey) = pkg.lastw.apiKey

Written == SubSeq(sink, Len(call.sink0) + 1, Len(sink))

(* C19: while and after TextToSpeechStream copies a 200 response, what it    *)
(* has written to the caller's writer is a prefix of the response body, in   *)
(* the order of the body and after what the writer held before; when the     *)
(* method returns nil the writer has got the whole body, once.               *)
C19_StreamWritesPrefix ==
    (call.ep = "TextToSpeechStream" /\ pc \in {"reading", "done"}
        /\ resp.status = 200)
        => /\ SubSeq(sink, 1, Len(call.sink0)) = call.sink0
           /\ Len(Written) <= Len(resp.body)
           /\ Written = SubSeq(resp.body, 1, Len(Written))
           /\ (pc = "done" /\ result.err.kind = "nil") => Written = resp.body

C19_Witness ==
    /\ call.ep = "TextToSpeechStream" /\ pc = "done" /\ resp.status = 200
    /\ result.err.kind = "nil"
    /\ resp.body = <<1, 2>> /\ sink = <<7, 1, 2>>

(* C20: when the deadline expires or the parent context is cancelled after   *)
(* TextToSpeechStream has copied part of a 200 body, the method returns the  *)
(* error of the context, the writer holds exactly the pieces copied until    *)
(* then, and nothing is written to it once the method has returned.          *)
C20_StreamKeepsPartialOnCancel ==
    /\ [] ((call.ep = "TextToSpeechStream" /\ pc = "done" /\ resp.status = 200
              /\ ctxErr # "none" /\ rcvd >= 1)
             => /\ result.err.kind = "transport"
                /\ result.err.text = ctxErr
                /\ sink = call.sink0 \o SubSeq(resp.body, 1, rcvd))
    /\ [][ (call.ep = "TextToSpeechStream" /\ pc = "done" /\ pc' = "done")
              => sink' = sink ]_vars

C20_Witness ==
    /\ call.ep = "TextToSpeechStream" /\ pc = "done" /\ resp.status = 200
    /\ ctxErr = "DeadlineExceeded" /\ rcvd = 1 /\ resp.body = <<2, 1>>
    /\ result.err.text = "DeadlineExceeded"
    /\ sink = <<7, 2>>

(* C21: when a path of AddEditVoiceRequest.FilePaths cannot be opened,       *)
(* buildRequestBody returns an error with a nil body and an empty content    *)
(* type, and AddVoice and EditVoice return that error (with their zero       *)
(* value) without building a request or calling the HTTP client: nothing is  *)
(* put on the network.                                                       *)
C21_UnopenedFileNoDispatch ==
    (pc # "idle" /\ call.ep \in {"AddVoice", "EditVoice"}
        /\ \E i \in DOMAIN call.files : call.files[i] = "missing")
        => /\ buildRequestBody(call.files).err
           /\ buildRequestBody(call.files).body = "nil"
           /\ buildRequestBody(call.files).contentType = ""
           /\ pc = "done"
           /\ result = Failed(call.ep, ErrBuild)
           /\ req = NoReq
           /\ sends = 0
           /\ wire.exchanges = 0

C21_Witness ==
    /\ pc = "done" /\ call.ep = "EditVoice" /\ call.files = <<"ok", "missing">>
    /\ result.err = ErrBuild /\ sends = 0 /\ wire = NoWire

(* C22: for every *ValidationError the request executor returns from a 422   *)
(* response whose body decodes (a list of any length, an empty list or no    *)
(* list), Error() returns "validation error: " followed by the message of    *)
(* the first entry and of no other.                                          *)
C22_ErrorGivesFirstMessage ==
    (shown.called /\ result.err.kind = "ValidationError")
        => /\ shown.panic = ""
           /\ Len(shown.text) = 2
           /\ shown.text[1] = "validation error: "
           /\ Len(result.err.val.items) >= 1
                 => shown.text[2] = result.err.val.items[1].msg

(* The entries of a 422 body's "detail" list, and whether one of them gives  *)
(* its location as a bare string.                                            *)
DetailEntries == Get(Parse(resp.body), "detail").a
HasBareLocation ==
    /\ Get(Parse(resp.body), "detail").t = "arr"
    /\ \E i \in DOMAIN DetailEntries : Get(DetailEntries[i], "loc").t = "str"

(* C23 as stated: a 422 body with an entry whose location is a bare string   *)
(* instead of an array of segments still decodes into a *ValidationError.    *)
C23_BareLocationDecodes ==
    (Received /\ resp.status = 422 /\ HasBareLocation)
        => result.err.kind = "ValidationError"

(* C23 amended: the location decoder works on the segments of an array: a    *)
(* 422 body whose locations are arrays decodes into a *ValidationError with  *)
(* every segment, string or number, turned into a string; a location given   *)
(* as a bare string does not fit the list of segments, and the call returns  *)
(* the JSON type error instead of a *ValidationError.                        *)
C23_SegmentsNormalisedBareRejected ==
    (Received /\ resp.status = 422)
        => /\ HasBareLocation => result.err = ErrJSON("type")
           /\ result.err.kind = "ValidationError" /\ ~result.err.val.isNil
                 => \A i \in DOMAIN result.err.val.items :
                      /\ Get(DetailEntries[i], "loc").t \in {"arr", "null"}
                      /\ Len(result.err.val.items[i].loc)
                            = Len(Get(DetailEntries[i], "loc").a)
                      /\ \A n \in DOMAIN result.err.val.items[i].loc :
                            result.err.val.items[i].loc[n]
                              = Get(DetailEntries[i], "loc").a[n].s

C23_Witness ==
    /\ Received /\ resp.status = 422 /\ resp.body = <<3, 3>>
    /\ HasBareLocation
    /\ result.err = ErrJSON("type")

(* The call in progress has built its request.                               *)
Built == pc # "idle" /\ req # NoReq

(* C24 as stated: the requests of the endpoints that send no body (the GET   *)
(* and DELETE methods) carry no Content-Type header.                         *)
C24_NoContentTypeWithoutBody ==
    (Built /\ Endpoints[call.ep].body = "empty")
        => req.header.contentType = <<>>

(* C24 amended: the executor sets Content-Type whenever the content type it  *)
(* is given is not empty, whether or not there is a body, and every endpoint *)
(* method gives it one: every request carries exactly one Content-Type,      *)
(* application/json for the GET and DELETE methods as for the JSON POSTs,    *)
(* and the multipart type for AddVoice and EditVoice.                        *)
C24_ContentTypeOnEveryRequest ==
    Built
        => /\ Len(req.header.contentType) = 1
           /\ req.header.contentType[1]
                 = IF call.ep \in {"AddVoice", "EditVoice"}
                   THEN contentTypeMultipart ELSE contentTypeJSON

C24_Witness ==
    /\ Built /\ call.ep = "DeleteVoice" /\ req.method = "DELETE"
    /\ req.header.contentType = <<contentTypeJSON>>

(* C25: every request of an endpoint method that returns decoded JSON or     *)
(* sends no body (GetModels, GetVoices, GetVoice, GetHistory, GetUser,       *)
(* DeleteVoice, AddVoice, ...) carries one Accept header, and its value is   *)
(* exactly "application/json".                                               *)
C25_AcceptIsJSON ==
    (Built /\ (Endpoints[call.ep].out \in {"typed", "history"}
                 \/ Endpoints[call.ep].body = "empty"))
        => req.header.accept = << "application/json" >>

(* Two slashes in a row in a path.                                           *)
HasDoubleSlash(p) == \E i \in 1..(Len(p) - 1) : p[i] = "/" /\ p[i + 1] = "/"

C27_ErrorComesWithZeroValue ==
    (pc = "done" /\ result.err.kind # "nil")
        => /\ result.payload = ZeroPayload(call.ep)
           /\ ~result.next.live

(* C28: when the response to TextToSpeechStream has a status other than 200  *)
(* (400, 401, 422 or any other), nothing is written to the caller's writer:  *)
(* while the error body is read and after the call has returned, the writer  *)
(* holds what it held before the call.                                       *)
C28_StreamErrorLeavesSinkAlone ==
    (call.ep = "TextToSpeechStream" /\ pc \in {"reading", "done"}
        /\ resp.status \notin {0, 200})
        => /\ sink = call.sink0
           /\ Written = <<>>

C28_Witness ==
    /\ call.ep = "TextToSpeechStream" /\ pc = "done" /\ resp.status = 422
    /\ resp.body = <<1, 2>> /\ rcvd = 2 /\ resp.eof
    /\ result.err.kind = "ValidationError"
    /\ call.sink0 = <<7>> /\ sink = <<7>>

(* The files a buildRequestBody in progress has opened so far: those before  *)
(* its position that exist, and the one at its position once it is past the  *)
(* os.Open of it.                                                            *)
OpenedSoFar ==
    { k \in DOMAIN build.files :
        /\ build.files[k] # "missing"
        /\ \/ k < build.i
           \/ k = build.i /\ (build.pc \in {"create", "copy"} \/ build.err = "copy") }

(* C29: every file buildRequestBody opens is closed by the time it returns,  *)
(* when it succeeds and when it fails (a later file that cannot be opened,   *)
(* a copy that fails); until it returns, all the files it has opened so far  *)
(* are open together.  What it returns is what AddVoice and EditVoice act on.*)
C29_FilesClosedAtReturn_OpenUntilThen ==
    /\ build.pc \in {"loop", "create", "copy"}
          => build.open = OpenedSoFar /\ build.closed = {}
    /\ build.pc = "defers"
          => build.open \cup build.closed = OpenedSoFar
    /\ build.pc = "done"
          => /\ build.open = {}
             /\ build.closed = OpenedSoFar
             /\ (build.err # "") = buildRequestBody(build.files).err
             /\ build.body = buildRequestBody(build.files).body
             /\ build.contentType = buildRequestBody(build.files).contentType

C29_Witness ==
    /\ build.pc = "done" /\ build.files = <<"ok", "dir", "missing">>
    /\ build.err = "copy" /\ build.open = {} /\ build.closed = {1, 2}

(* The place of a key's first letter in the alphabet (o, p, s, w).           *)
Initial(k) ==
    CASE k = "optimize_streaming_latency" -> 15
      [] k = "page_size" -> 16
      [] k = "start_after_history_item_id" -> 19
      [] k = "with_settings" -> 23

(* A list of modifiers with those at i and i + 1 exchanged.                  *)
Swap(qs, i) ==
    [n \in DOMAIN qs |-> IF n = i THEN qs[i + 1] ELSE IF n = i + 1 THEN qs[i] ELSE qs[n]]

(* C30: the encoded query of a request has its keys in sorted order and is   *)
(* the same when two modifiers for different keys are passed in the other    *)
(* order, while the values of a key that several modifiers set appear in     *)
(* the order in which those modifiers were applied.                          *)
C30_QueryOrderOnlyWithinKey ==
    Built
        => /\ \A i \in 1..(Len(req.query) - 1) :
                 Initial(req.query[i][1]) <= Initial(req.query[i + 1][1])
           /\ \A i \in 1..(Len(call.queries) - 1) :
                 call.queries[i].key # call.queries[i + 1].key
                    => Encode(ApplyQueries(<<>>, Swap(call.queries, i))) = req.query
           /\ \A k \in Range(SortedKeys) :
                 LET mine == SelectSeq(call.queries, LAMBDA m : m.key = k)
                 IN ValuesFor(req.query, k) = [n \in DOMAIN mine |-> mine[n].value]

C30_Witness ==
    /\ Built /\ call.ep = "GetHistory"
    /\ call.queries = <<StartAfter("W"), PageSize(9), PageSize(5)>>
    /\ req.query = << <<"page_size", "9">>, <<"page_size", "5">>,
                      <<"start_after_history_item_id", "W">> >>

====
